---- MODULE Spec2Model ----
(***************************************************************************)
(* A model of the McSAS3 Monte Carlo core (mcsas3/mccore.py), of its       *)
(* checkpoint writer (mcsas3/McHDF.py), of the multi-repetition           *)
(* aggregator (mcsas3/mcanalysis.py) and of the command line runner        *)
(* (mcsas3_cli_runner.py).                                                 *)
(*                                                                         *)
(* Floating point values are modelled as exact rationals <<num, den>> with *)
(* den > 0, kept in lowest terms.  Vectors over the Q grid are sequences,  *)
(* the parameter table is a function from the contribution index           *)
(* 0..nContrib-1 to the value of the single fit parameter of a row.        *)
(***************************************************************************)
EXTENDS Integers, Sequences, FiniteSets, TLC

(* ----------------------------- bounds ---------------------------------- *)
\* nContrib of the run configuration: number of contributions of an ensemble
NContrib == 2
\* largest maxIter a run configuration may carry
MaxIter == 3
\* largest maxAccept a run configuration may carry
MaxAccept == 2
\* repetition identifiers are 1..MaxRep
MaxRep == 2

RepIds == 1 .. MaxRep
ContribIdx == 0 .. (NContrib - 1)
\* the values the fit parameter of a contribution can be drawn from
ParamValues == {1, 2, 3}
\* convergence criteria a run configuration may carry: never reached,
\* reached by the best ensembles only, reached at once
ConvCrits == {<<0, 1>>, <<2, 5>>, <<1000, 1>>}

(* ------------------------ exact arithmetic ------------------------------ *)
Abs(x) == IF x < 0 THEN -x ELSE x

RECURSIVE GCD(_, _)
GCD(a, b) == IF b = 0 THEN a ELSE GCD(b, a % b)

\* the rational n/d (d > 0) in lowest terms
Rat(n, d) ==
    LET g == GCD(Abs(n), d)
    IN  IF n >= 0 THEN <<n \div g, d \div g>> ELSE <<-((-n) \div g), d \div g>>

RatLess(a, b) == a[1] * b[2] < b[1] * a[2]

RECURSIVE SumSeq(_)
SumSeq(s) == IF s = <<>> THEN 0 ELSE Head(s) + SumSeq(Tail(s))

(* ------------------------- measurement data ----------------------------- *)
\* measData["I"] on a grid of four Q points; measData["ISigma"] is 1
\* everywhere, so that every weight 1/sigma^2 is 1
measI == <<1, 1, 0, 0>>
QIdx == 1 .. Len(measI)

(* ------------------------------ kernel ---------------------------------- *)
\* scatterer volume V_shell of a parameter value
Vshell(p) == p

\* form factor profile over the Q grid; parameter value 3 has a flat profile
Form(p) ==
    CASE p = 1 -> <<3, 3, 2, 3>>
      [] p = 2 -> <<2, 1, 1, 2>>
      [] OTHER -> <<1, 1, 1, 1>>

\* Fsq of call_Fq, in units of 1/nContrib so that the division of an
\* intensity by nContrib is exact
Fsq(p) == [k \in QIdx |-> NContrib * Vshell(p) * Form(p)[k]]

\* McCore.calcModelIV: (Fsq / V_shell, V_shell)
calcModelIV(p) ==
    [I |-> [k \in QIdx |-> Fsq(p)[k] \div Vshell(p)], V |-> Vshell(p)]

(* --------------------- scale / background solver ------------------------ *)
\* degrees of freedom consumed by the fit of scaling and background
FitNDoF == 2

\* the solution of the 2x2 normal equations from their determinant det and
\* the numerators sn, bn of scaling and background; the GOF is the reduced
\* chi-squared of the residual.  A singular matrix is the IllConditioned
\* failure.
MatchSolve(x0, K, det, sn, bn, SI, SmI, SII) ==
    IF det = 0
    THEN [illConditioned |-> TRUE, x0 |-> x0, gof |-> <<0, 1>>]
    ELSE [illConditioned |-> FALSE,
          x0  |-> <<Rat(sn, det), Rat(bn, det)>>,
          gof |-> Rat(det * SII - sn * SmI - bn * SI, det * (K - FitNDoF))]

\* the normal equations from the sums over the Q grid
MatchSums(x0, K, Sm, Smm, SI, SmI, SII) ==
    MatchSolve(x0, K, K * Smm - Sm * Sm, K * SmI - Sm * SI, Smm * SI - Sm * SmI,
               SI, SmI, SII)

\* optimizeScalingAndBackground.match: the closed-form weighted least
\* squares solution of I ~ s*m + b.  The warm start x0 does not enter the
\* closed form.
Match(testData, x0) ==
    MatchSums(x0, Len(measI),
              SumSeq(testData),
              SumSeq([k \in QIdx |-> testData[k] * testData[k]]),
              SumSeq(measI),
              SumSeq([k \in QIdx |-> testData[k] * measI[k]]),
              SumSeq([k \in QIdx |-> measI[k] * measI[k]]))

(* ------------------------------ state ----------------------------------- *)
VARIABLES
    pc,        \* position of the program that drives the core
    model,     \* McCore._model: parameterSet, volumes, pickParameters
    opt,       \* McCore._opt: modelI, x0, gof, counters, targets, scratch
    newGof,    \* the local newGof of the last McCore.iterate
    iters,     \* number of iterate calls of the current optimize call
    proposed,  \* per iterate call: index used by reEvaluate and by accept
    file,      \* the HDF5 result file: its groups and its datasets
    hdfCall,   \* the arguments and the outcome of the last _HDFstoreKV call
    stored,    \* the core as it was at the last McCore.store, and the calls so far
    loadInfo,  \* the last McCore(loadFromFile): what the file held, the outcome
    shared,    \* the class-level dictionaries of McAnalysis, one per process
    analysis,  \* the last McAnalysis instance: its lists, tables and averages
    cli        \* the last McSAS3_cli_opt: its files, its position in run()

coreVars == <<pc, model, opt, newGof, iters, proposed>>
fileVars == <<file, hdfCall>>
reloadVars == <<stored, loadInfo>>
aggVars == <<shared, analysis>>
vars == <<coreVars, fileVars, reloadVars, aggVars, cli>>

\* None, where a vector, a table or a float is expected, and where a
\* parameter value or a volume is expected
NoValue == <<>>
NoNumber == 0

NoModel == [parameterSet |-> NoValue, volumes |-> NoValue, pickParameters |-> NoNumber]

NoOpt == [modelI |-> NoValue, x0 |-> NoValue, gof |-> NoValue,
          step |-> 0, accepted |-> 0,
          maxIter |-> 0, maxAccept |-> 0, convCrit |-> NoValue,
          repetition |-> 0,
          testModelI |-> NoValue, testX0 |-> NoValue, testModelV |-> NoNumber]

HasCore == pc \in {"ready", "optimizing", "done", "failed"}

(* ------------------------- McHDF._HDFstoreKV --------------------------- *)
\* A dataset is [shape, dtype, data]: shape <<>> for a scalar and <<n>> or
\* <<n, m>> for an array, dtype "i8", "f8" or "vlen" (variable length
\* strings), data the flattened elements as rationals.  A value handed to
\* _HDFstoreKV has in addition its Python kind: "scalar", "tuple", "list",
\* "ndarray" or "None"; the dtype of a tuple or list is the one np.array
\* infers, "U6" being an array of unicode strings of width 6.
NoPath == <<>>
NoKey == ""
NoFile == ""
NoneValue == [kind |-> "None", shape |-> <<>>, dtype |-> "", data |-> <<>>]

EmptyFile == [groups |-> {}, data |-> <<>>]

Ok(f) == [file |-> f, raised |-> "none"]
Raise(f, error) == [file |-> f, raised |-> error]

\* np.can_cast(dtype, dset.dtype), the test of require_dataset
CanCast(from, to) == to = "vlen" \/ from = to \/ (from = "i8" /\ to = "f8")

\* the element q as it is stored in a dataset of the given dtype: a float
\* written into an integer dataset is truncated towards zero
CastTo(q, dtype) ==
    IF dtype = "i8"
    THEN IF q[1] >= 0 THEN <<q[1] \div q[2], 1>> ELSE <<-((-q[1]) \div q[2]), 1>>
    ELSE q

\* h5g.create_dataset(key, data = value)
createDataset(f, path, key, v) ==
    Ok([f EXCEPT !.data = (<<path, key>> :> [shape |-> v.shape, dtype |-> v.dtype, data |-> v.data]) @@ @])

\* h5g.require_dataset(key, data = value, shape = value.shape, dtype =
\* value.dtype): creates the dataset when it is missing; an existing dataset
\* is checked for its shape and dtype and returned as it is
requireDataset(f, path, key, v) ==
    IF <<path, key>> \notin DOMAIN f.data
    THEN createDataset(f, path, key, v)
    ELSE IF v.shape # f.data[<<path, key>>].shape
         THEN Raise(f, "TypeError")
         ELSE IF ~CanCast(v.dtype, f.data[<<path, key>>].dtype)
              THEN Raise(f, "TypeError")
              ELSE Ok(f)

\* dset[()] = value: the scalar is broadcast over the existing dataset and
\* cast to its dtype; numbers and strings do not convert into each other
assignScalar(f, path, key, d, v) ==
    IF (d.dtype = "vlen") # (v.dtype = "vlen")
    THEN Raise(f, "TypeError")
    ELSE Ok([f EXCEPT !.data[<<path, key>>].data =
                          [i \in DOMAIN d.data |-> CastTo(v.data[1], d.dtype)]])

\* the non-array branch of _HDFstoreKV
storeScalar(f, path, key, v) ==
    IF <<path, key>> \notin DOMAIN f.data
    THEN createDataset(f, path, key, v)
    ELSE assignScalar(f, path, key, f.data[<<path, key>>], v)

\* _HDFstoreKV once the group exists: v is the value after the conversion
\* of tuples and lists
storeInGroup(f, path, key, v) ==
    IF v.kind = "ndarray"
    THEN requireDataset(f, path, key,
                        IF v.dtype = "U6" THEN [v EXCEPT !.dtype = "vlen"] ELSE v)
    ELSE IF v.kind # "None"
         THEN storeScalar(f, path, key, v)
         ELSE Ok(f)

\* value = np.array(value) for a tuple or a list
asArray(v) == IF v.kind \in {"tuple", "list"} THEN [v EXCEPT !.kind = "ndarray"] ELSE v

\* h5f.require_group(path)
requireGroup(f, path) == [f EXCEPT !.groups = @ \cup {path}]

\* mutant: the key is asserted after the file is opened and the group made
HDFstoreKVLateAssert(f, filename, path, key, value) ==
    IF filename = NoFile \/ path = NoPath
    THEN Raise(f, "AssertionError")
    ELSE IF key = NoKey
         THEN Raise(requireGroup(f, path), "AssertionError")
         ELSE storeInGroup(requireGroup(f, path), path, key, asArray(value))

\* McHDF._HDFstoreKV(filename, path, key, value) on the file f
HDFstoreKV(f, filename, path, key, value) ==
    IF filename = NoFile \/ path = NoPath \/ key = NoKey
    THEN Raise(f, "AssertionError")
    ELSE storeInGroup(requireGroup(f, path), path, key, asArray(value))

\* the values, paths and keys of the calls of _HDFstoreKV that are explored
Whole(n) == <<n, 1>>
PyScalar(dtype, q) == [kind |-> "scalar", shape |-> <<>>, dtype |-> dtype, data |-> <<q>>]
PyArray(kind, dtype, elems) == [kind |-> kind, shape |-> <<Len(elems)>>, dtype |-> dtype, data |-> elems]

HdfValues ==
    { NoneValue,
      PyScalar("i8", Whole(1)), PyScalar("i8", Whole(2)), PyScalar("f8", <<5, 2>>),
      PyArray("tuple", "i8", <<Whole(1), Whole(2)>>),
      PyArray("list", "f8", <<<<1, 2>>, <<3, 2>>>>),
      PyArray("ndarray", "f8", <<<<7, 2>>, Whole(4)>>),
      PyArray("ndarray", "i8", <<Whole(1), Whole(2), Whole(3)>>),
      PyArray("ndarray", "U6", <<Whole(1), Whole(2)>>) }

HdfPaths == {<<"optimization", 1>>}
HdfKeys == {"x0", "gof"}

NoCall == [filename |-> NoFile, path |-> NoPath, key |-> NoKey, value |-> NoneValue,
           raised |-> "none"]

(* ------------------------------ McCore ---------------------------------- *)
\* mutant: the round robin follows the accepted moves instead of the steps
contribIndexByAccepted(o) == o.accepted % NContrib

\* McCore.contribIndex
contribIndex(o) == o.step % NContrib

RECURSIVE AddContribs(_, _, _)
\* the loop of initModelI over contribi = n .. nContrib-1
AddContribs(ps, n, acc) ==
    IF n = NContrib
    THEN acc
    ELSE AddContribs(ps, n + 1,
            [k \in QIdx |-> acc[k] + calcModelIV(ps[n]).I[k] \div NContrib])

\* McCore.initModelI
initModelI(m, o) ==
    [model |-> [m EXCEPT !.volumes = [i \in ContribIdx |-> calcModelIV(m.parameterSet[i]).V]],
     opt   |-> [o EXCEPT !.modelI = AddContribs(m.parameterSet, 0, [k \in QIdx |-> 0])]]

\* McCore.evaluate after the call of match, whose result is r
evaluateResult(o, r) ==
    IF r.illConditioned
    THEN [raised |-> TRUE, opt |-> o, gof |-> NoValue]
    ELSE [raised |-> FALSE, opt |-> [o EXCEPT !.testX0 = r.x0], gof |-> r.gof]

\* McCore.evaluate: sets opt.testX0 and returns the GOF, or raises
evaluate(o, testData) == evaluateResult(o, Match(testData, o.x0))

\* mutant: the trial intensity is written into modelI in place
reEvaluatePickInPlace(o, Iold, pick) ==
    evaluate([o EXCEPT !.modelI =
                           [k \in QIdx |-> o.modelI[k] + (pick.I[k] - Iold[k]) \div NContrib],
                       !.testModelI =
                           [k \in QIdx |-> o.modelI[k] + (pick.I[k] - Iold[k]) \div NContrib],
                       !.testModelV = pick.V],
             [k \in QIdx |-> o.modelI[k] + (pick.I[k] - Iold[k]) \div NContrib])

\* McCore.reEvaluate from the old intensity Iold of the contribution at
\* contribIndex and the intensity and volume pick of pickParameters
reEvaluatePick(o, Iold, pick) ==
    evaluate([o EXCEPT !.testModelI =
                           [k \in QIdx |-> o.modelI[k] + (pick.I[k] - Iold[k]) \div NContrib],
                       !.testModelV = pick.V],
             [k \in QIdx |-> o.modelI[k] + (pick.I[k] - Iold[k]) \div NContrib])

\* McCore.reEvaluate
reEvaluate(m, o) ==
    reEvaluatePick(o, calcModelIV(m.parameterSet[contribIndex(o)]).I,
                   calcModelIV(m.pickParameters))

\* mutant: accept forgets to store the volume of the pick
acceptKeepVolume(m, o) ==
    [model |-> [m EXCEPT !.parameterSet[contribIndex(o)] = m.pickParameters],
     opt   |-> [o EXCEPT !.modelI = o.testModelI,
                         !.x0 = o.testX0,
                         !.accepted = @ + 1]]

\* McCore.accept
accept(m, o) ==
    [model |-> [m EXCEPT !.parameterSet[contribIndex(o)] = m.pickParameters,
                         !.volumes[contribIndex(o)] = o.testModelV],
     opt   |-> [o EXCEPT !.modelI = o.testModelI,
                         !.x0 = o.testX0,
                         !.accepted = @ + 1]]

\* mutant: a tie is accepted
ImprovesOrTies(trialGof, gof) == ~RatLess(gof, trialGof)

\* the acceptance test of McCore.iterate
Improves(trialGof, gof) == RatLess(trialGof, gof)

\* McCore.iterate, accepting branch: a is the result of accept
iterateAccepted(a, trialGof, reIdx, accIdx) ==
    [raised |-> FALSE, model |-> a.model,
     opt |-> [a.opt EXCEPT !.gof = trialGof, !.step = @ + 1],
     newGof |-> trialGof,
     trace |-> [step |-> a.opt.step, re |-> reIdx, acc |-> accIdx]]

\* McCore.iterate after pick (m1 is the model holding the pick) and
\* reEvaluate, whose result is re; reIdx is the index reEvaluate used
iterateDecide(m1, gof, re, reIdx) ==
    IF re.raised
    THEN [raised |-> TRUE, model |-> m1, opt |-> re.opt, newGof |-> NoValue,
          trace |-> [step |-> re.opt.step, re |-> reIdx, acc |-> -1]]
    ELSE IF Improves(re.gof, gof)
         THEN iterateAccepted(accept(m1, re.opt), re.gof, reIdx, contribIndex(re.opt))
         ELSE [raised |-> FALSE, model |-> m1,
               opt |-> [re.opt EXCEPT !.step = @ + 1],
               newGof |-> re.gof,
               trace |-> [step |-> re.opt.step, re |-> reIdx, acc |-> -1]]

\* McModel.pick with the draw pk: sets pickParameters only
pick(m, pk) == [m EXCEPT !.pickParameters = pk]

\* McCore.iterate with the draw pk of McModel.pick
iterate(m, o, pk) ==
    iterateDecide(pick(m, pk), o.gof, reEvaluate(pick(m, pk), o), contribIndex(o))

\* mutant: the step limit is tested with <=
LoopCondOffByOne(o) ==
    /\ o.accepted < o.maxAccept
    /\ o.step <= o.maxIter
    /\ RatLess(o.convCrit, o.gof)

\* mutant: the loop goes on while either limit is not reached
LoopCondEitherLimit(o) ==
    /\ (o.accepted < o.maxAccept \/ o.step < o.maxIter)
    /\ RatLess(o.convCrit, o.gof)

\* mutant: the loop does not test the convergence criterion
LoopCondNoConvCrit(o) ==
    /\ o.accepted < o.maxAccept
    /\ o.step < o.maxIter

\* the loop condition of McCore.optimize
LoopCond(o) ==
    /\ o.accepted < o.maxAccept
    /\ o.step < o.maxIter
    /\ RatLess(o.convCrit, o.gof)

\* McCore.__init__ after initModelI and the initial evaluate, whose result
\* is ev: gof <- the GOF, x0 <- testX0
coreInitResult(m, ev) ==
    IF ev.raised
    THEN [raised |-> TRUE, model |-> m, opt |-> ev.opt]
    ELSE [raised |-> FALSE, model |-> m,
          opt |-> [ev.opt EXCEPT !.gof = ev.gof, !.x0 = ev.opt.testX0]]

\* McCore.__init__ after initModelI, whose result is im
coreInitEvaluate(im) == coreInitResult(im.model, evaluate(im.opt, im.opt.modelI))

\* the part of McCore.__init__ shared by a fresh and a loaded core
coreInit(m, o) == coreInitEvaluate(initModelI(m, o))

\* mutant: the counters of the supplied opt are kept
freshCoreKeepCounters(m, o) == coreInit(m, o)

\* McCore.__init__ without loadFromFile: the counters of the supplied opt
\* are reset
freshCore(m, o) == coreInit(m, [o EXCEPT !.step = 0, !.accepted = 0])

\* an McOpt as a caller supplies it, and an McModel as its constructor
\* draws it from the prior
SuppliedOpts ==
    [modelI : {NoValue}, x0 : {<<<<1, 1>>, <<0, 1>>>>}, gof : {NoValue},
     step : 0 .. 1, accepted : 0 .. 1,
     maxIter : 0 .. MaxIter, maxAccept : 0 .. MaxAccept, convCrit : ConvCrits,
     repetition : RepIds,
     testModelI : {NoValue}, testX0 : {NoValue}, testModelV : {NoNumber}]

DrawnModels ==
    [parameterSet : [ContribIdx -> ParamValues], volumes : {NoValue},
     pickParameters : {NoNumber}]

\* no store call yet, and no load yet
NoStored == [count |-> 0, repetition |-> 0, raised |-> "none",
             parameterSet |-> NoValue, gof |-> NoValue, x0 |-> NoValue]

NoLoad == [outcome |-> "none", repetition |-> 0,
           fileParameterSet |-> NoValue, fileGof |-> NoValue, fileX0 |-> NoValue,
           gof |-> NoValue, x0 |-> NoValue]

\* the histogram ranges handed to McAnalysis: one row per range
HistRanges ==
    <<[parameter |-> "radius", rangeMin |-> 1, rangeMax |-> 2, nBins |-> 2,
       binScale |-> "lin", weighting |-> "vol"]>>

HistIdx == 1 .. Len(HistRanges)

\* the class-level dictionaries as the class body leaves them: empty
NoShared == [concatI |-> <<>>,
             concatModes |-> [h \in HistIdx |-> <<>>],
             concatHistograms |-> [h \in HistIdx |-> <<>>],
             concatBinEdges |-> [h \in HistIdx |-> <<>>]]

\* no McAnalysis instance yet
NoAnalysis == [instance |-> 0, again |-> FALSE,
               status |-> "none", repetitionList |-> <<>>, concatOpts |-> <<>>,
               averagedModes |-> <<>>, averagedHistograms |-> <<>>,
               averagedOpts |-> <<>>, averagedI |-> <<>>]

\* no McSAS3_cli_opt yet; prior is the result file as run() found it
NoCli == [pc |-> "none", dataFile |-> "", readConfigFile |-> "", runConfigFile |-> "",
          prior |-> EmptyFile, dataStored |-> FALSE, repetitions |-> 0]

(* ------------------------------ actions --------------------------------- *)
Init ==
    /\ pc = "none"
    /\ model = NoModel
    /\ opt = NoOpt
    /\ newGof = NoValue
    /\ iters = 0
    /\ proposed = <<>>
    /\ file = EmptyFile
    /\ hdfCall = NoCall
    /\ stored = NoStored
    /\ loadInfo = NoLoad
    /\ shared = NoShared
    /\ analysis = NoAnalysis
    /\ cli = NoCli

\* the constructor returns (raised = FALSE) or raises, leaving the core c
Constructed(c, raised) ==
    /\ c.raised = raised
    /\ model' = c.model
    /\ opt' = c.opt

\* McCore(measData, model, opt) succeeds
NewCore ==
    /\ pc = "none"
    /\ \E m \in DrawnModels, o \in SuppliedOpts : Constructed(freshCore(m, o), FALSE)
    /\ pc' = "ready"
    /\ UNCHANGED <<newGof, iters, proposed>>
    /\ UNCHANGED <<fileVars, reloadVars, aggVars, cli>>

\* McCore(measData, model, opt) raises in its initial evaluate
NewCoreRaise ==
    /\ pc = "none"
    /\ \E m \in DrawnModels, o \in SuppliedOpts : Constructed(freshCore(m, o), TRUE)
    /\ pc' = "failed"
    /\ UNCHANGED <<newGof, iters, proposed>>
    /\ UNCHANGED <<fileVars, reloadVars, aggVars, cli>>

\* McCore.optimize is called
OptimizeStart ==
    /\ pc \in {"ready", "done"}
    /\ pc' = "optimizing"
    /\ iters' = 0
    /\ UNCHANGED <<model, opt, newGof, proposed>>
    /\ UNCHANGED <<fileVars, reloadVars, aggVars, cli>>

\* iterate returns (raised = FALSE) or raises, with the result r
Iterated(r, raised) ==
    /\ r.raised = raised
    /\ model' = r.model
    /\ opt' = r.opt
    /\ newGof' = r.newGof
    /\ proposed' = Append(proposed, r.trace)
    /\ iters' = iters + 1

\* one pass of the while loop of McCore.optimize
Iterate ==
    /\ pc = "optimizing"
    /\ LoopCond(opt)
    /\ \E pk \in ParamValues : Iterated(iterate(model, opt, pk), FALSE)
    /\ pc' = pc
    /\ UNCHANGED <<fileVars, reloadVars, aggVars, cli>>

\* one pass of the while loop in which the solver raises
IterateRaise ==
    /\ pc = "optimizing"
    /\ LoopCond(opt)
    /\ \E pk \in ParamValues : Iterated(iterate(model, opt, pk), TRUE)
    /\ pc' = "failed"
    /\ UNCHANGED <<fileVars, reloadVars, aggVars, cli>>

\* the while loop of McCore.optimize ends and optimize returns
OptimizeReturn ==
    /\ pc = "optimizing"
    /\ ~LoopCond(opt)
    /\ pc' = "done"
    /\ UNCHANGED <<model, opt, newGof, iters, proposed>>
    /\ UNCHANGED <<fileVars, reloadVars, aggVars, cli>>

Next ==
    \/ NewCore
    \/ NewCoreRaise
    \/ OptimizeStart
    \/ Iterate
    \/ IterateRaise
    \/ OptimizeReturn

Spec == Init /\ [][Next]_vars

(* --------------------- the checkpoint writer alone ---------------------- *)
\* a call of _HDFstoreKV on the result file
HdfStore ==
    /\ \E fn \in {NoFile, "result.h5"}, path \in HdfPaths \cup {NoPath},
          key \in HdfKeys \cup {NoKey}, v \in HdfValues :
          /\ file' = HDFstoreKV(file, fn, path, key, v).file
          /\ hdfCall' = [filename |-> fn, path |-> path, key |-> key, value |-> v,
                         raised |-> HDFstoreKV(file, fn, path, key, v).raised]
    /\ UNCHANGED <<coreVars, reloadVars, aggVars, cli>>

NextHdf == HdfStore

SpecHdf == Init /\ [][NextHdf]_vars

(* --------------------- McCore.store and McCore.load --------------------- *)
\* the number of McCore.store calls that are explored
MaxStores == 2

ResultFile == "result.h5"

modelPath(repetition) == <<"model", repetition>>
optPath(repetition) == <<"optimization", repetition>>

KV(key, value) == [key |-> key, value |-> value]

RECURSIVE storeKeys(_, _, _, _)
\* for key in storeKeys: self._HDFstoreKV(filename, path, key, value); r is
\* the outcome so far, an exception ends the sequence
storeKeys(r, filename, path, kvs) ==
    IF r.raised # "none" \/ kvs = <<>>
    THEN r
    ELSE storeKeys(HDFstoreKV(r.file, filename, path, Head(kvs).key, Head(kvs).value),
                   filename, path, Tail(kvs))

\* the ensemble snapshot: the parameter table as the list of its rows, and
\* the volumes
modelSnapshot(m) ==
    <<KV("parameterSet", [kind |-> "list", shape |-> <<NContrib, 1>>, dtype |-> "f8",
                          data |-> [i \in 1 .. NContrib |-> Whole(m.parameterSet[i - 1])]]),
      KV("volumes", PyArray("ndarray", "f8",
                            [i \in 1 .. NContrib |-> Whole(m.volumes[i - 1])]))>>

\* the Opt snapshot: two arrays and seven scalars
optSnapshot(o) ==
    <<KV("modelI", PyArray("ndarray", "f8", [k \in QIdx |-> Whole(o.modelI[k])])),
      KV("x0", PyArray("ndarray", "f8", o.x0)),
      KV("gof", PyScalar("f8", o.gof)),
      KV("step", PyScalar("i8", Whole(o.step))),
      KV("accepted", PyScalar("i8", Whole(o.accepted))),
      KV("maxIter", PyScalar("i8", Whole(o.maxIter))),
      KV("maxAccept", PyScalar("i8", Whole(o.maxAccept))),
      KV("convCrit", PyScalar("f8", o.convCrit)),
      KV("repetition", PyScalar("i8", Whole(o.repetition)))>>

\* McModel.store(filename, repetition)
McModelStore(f, filename, repetition, m) ==
    storeKeys(Ok(f), filename, modelPath(repetition), modelSnapshot(m))

\* McOpt.store(filename, path), r being the outcome of McModel.store
McOptStore(r, filename, path, o) == storeKeys(r, filename, path, optSnapshot(o))

\* McCore.store(filename)
coreStore(f, filename, m, o) ==
    McOptStore(McModelStore(f, filename, o.repetition, m),
               filename, optPath(o.repetition), o)

\* the elements of the dataset at path/key
dataAt(f, path, key) == f.data[<<path, key>>].data

HasRepetition(f, repetition) == <<optPath(repetition), "gof">> \in DOMAIN f.data

\* McModel(loadFromFile, loadFromRepetition)
McModelLoad(f, path) ==
    [parameterSet   |-> [i \in ContribIdx |-> dataAt(f, path, "parameterSet")[i + 1][1]],
     volumes        |-> [i \in ContribIdx |-> dataAt(f, path, "volumes")[i + 1][1]],
     pickParameters |-> NoNumber]

\* McOpt(loadFromFile, loadFromRepetition)
McOptLoad(f, path) ==
    [modelI     |-> [k \in QIdx |-> dataAt(f, path, "modelI")[k][1]],
     x0         |-> dataAt(f, path, "x0"),
     gof        |-> dataAt(f, path, "gof")[1],
     step       |-> dataAt(f, path, "step")[1][1],
     accepted   |-> dataAt(f, path, "accepted")[1][1],
     maxIter    |-> dataAt(f, path, "maxIter")[1][1],
     maxAccept  |-> dataAt(f, path, "maxAccept")[1][1],
     convCrit   |-> dataAt(f, path, "convCrit")[1],
     repetition |-> dataAt(f, path, "repetition")[1][1],
     testModelI |-> NoValue, testX0 |-> NoValue, testModelV |-> NoNumber]

(* ----------------- np.testing.assert_approx_equal ----------------------- *)
Significant == 3

RECURSIVE Pow10(_)
Pow10(n) == IF n = 0 THEN 1 ELSE 10 * Pow10(n - 1)

\* 10^e * x <= y, for integers x and y and a decade e of either sign
ScaledLeq(e, x, y) == IF e >= 0 THEN Pow10(e) * x <= y ELSE x <= Pow10(-e) * y

\* the decimal exponents of the magnitudes that occur
Decades == (0 - 4) .. 4

\* floor(log10(0.5 * (abs(desired) + abs(actual)))), the sum being Sn / Sd
Decade(Sn, Sd) ==
    CHOOSE e \in Decades : ScaledLeq(e, 2 * Sd, Sn) /\ ~ScaledLeq(e + 1, 2 * Sd, Sn)

\* not (abs(sc_desired - sc_actual) >= 10 ** -(significant - 1)), the
\* difference being Dn / Sd and the sum Sn / Sd
approxScaled(Dn, Sn, Sd) == ~ScaledLeq(Decade(Sn, Sd), Sd, Pow10(Significant - 1) * Dn)

\* assert_approx_equal(actual, desired, significant = 3) passes
assertApproxEqual(actual, desired) ==
    \/ desired = actual
    \/ approxScaled(Abs(actual[1] * desired[2] - desired[1] * actual[2]),
                    Abs(actual[1]) * desired[2] + Abs(desired[1]) * actual[2],
                    actual[2] * desired[2])

\* mutant: the background is not compared
reloadAgreesButBackground(testGof, testX0, o) ==
    /\ assertApproxEqual(testGof, o.gof)
    /\ assertApproxEqual(testX0[1], o.x0[1])

\* the three assertions at the end of McCore.__init__
reloadAgrees(testGof, testX0, o) ==
    /\ assertApproxEqual(testGof, o.gof)
    /\ assertApproxEqual(testX0[1], o.x0[1])
    /\ assertApproxEqual(testX0[2], o.x0[2])

\* McCore.__init__ with loadFromFile after the recomputation, whose result
\* is c; testGof and testX0 are the values that were loaded
reloadChecked(testGof, testX0, c) ==
    IF c.raised
    THEN [outcome |-> "illConditioned", model |-> c.model, opt |-> c.opt]
    ELSE IF reloadAgrees(testGof, testX0, c.opt)
         THEN [outcome |-> "ok", model |-> c.model, opt |-> c.opt]
         ELSE [outcome |-> "mismatch", model |-> c.model, opt |-> c.opt]

\* mutant: the counters are reset for a loaded core as well
reloadFromReset(m, o) == reloadChecked(o.gof, o.x0, freshCore(m, o))

\* McCore.__init__ with loadFromFile after McCore.load, which gave m and o
reloadFrom(m, o) == reloadChecked(o.gof, o.x0, coreInit(m, o))

\* McCore(measData, loadFromFile, loadFromRepetition)
loadedCore(f, repetition) ==
    reloadFrom(McModelLoad(f, modelPath(repetition)), McOptLoad(f, optPath(repetition)))

(* ----------------------- runs that store and reload --------------------- *)
\* the opt of a run: the targets of the configuration
RunOpts ==
    {o \in SuppliedOpts : /\ o.maxIter = MaxIter /\ o.maxAccept = MaxAccept
                          /\ o.convCrit = <<0, 1>>}

RatMul(a, b) == Rat(a[1] * b[1], a[2] * b[2])

\* a result file of an earlier build whose kernel differs in the last digits
Drifts == {<<1001, 1000>>, <<101, 100>>}

Drifted(o, what, d) ==
    IF what = "gof" THEN [o EXCEPT !.gof = RatMul(@, d)]
    ELSE IF what = "scaling" THEN [o EXCEPT !.x0[1] = RatMul(@, d)]
    ELSE [o EXCEPT !.x0[2] = RatMul(@, d)]

EarlierModel ==
    [parameterSet |-> [i \in ContribIdx |-> (i % 2) + 1], volumes |-> NoValue,
     pickParameters |-> NoNumber]

EarlierCore == freshCore(EarlierModel, CHOOSE o \in RunOpts : o.repetition = 1)

EarlierFiles ==
    {EmptyFile} \cup
    {coreStore(EmptyFile, ResultFile, EarlierCore.model, Drifted(EarlierCore.opt, what, d)).file :
        what \in {"gof", "scaling", "background"}, d \in Drifts}

\* the core of a script that made one iterate call (pick 1) on a fresh core
\* with the ensemble whose first contribution is first, and stored the core
IteratedOnce(first) ==
    iterate(freshCore([EarlierModel EXCEPT !.parameterSet[0] = first], EarlierCore.opt).model,
            freshCore([EarlierModel EXCEPT !.parameterSet[0] = first], EarlierCore.opt).opt, 1)

\* the result files of such scripts: stored after a rejected step, and after
\* an accepted one
InterruptedFiles ==
    {coreStore(EmptyFile, ResultFile, IteratedOnce(first).model, IteratedOnce(first).opt).file :
        first \in {1, 2}}

InitReload ==
    /\ pc = "none"
    /\ model = NoModel
    /\ opt = NoOpt
    /\ newGof = NoValue
    /\ iters = 0
    /\ proposed = <<>>
    /\ file \in EarlierFiles \cup InterruptedFiles
    /\ hdfCall = NoCall
    /\ stored = NoStored
    /\ loadInfo = NoLoad
    /\ shared = NoShared
    /\ analysis = NoAnalysis
    /\ cli = NoCli

\* McCore(measData, model, opt) for a run of the configuration
Run ==
    /\ pc = "none"
    /\ stored.count < MaxStores
    /\ \E m \in DrawnModels, o \in RunOpts : Constructed(freshCore(m, o), FALSE)
    /\ pc' = "ready"
    /\ newGof' = NoValue
    /\ iters' = 0
    /\ proposed' = <<>>
    /\ loadInfo' = NoLoad
    /\ UNCHANGED <<fileVars, stored, aggVars, cli>>

\* McCore.store(filename) after optimize, r being its outcome; the core is
\* dropped afterwards
Stored(r) ==
    /\ file' = r.file
    /\ stored' = [count |-> stored.count + 1, repetition |-> opt.repetition,
                  raised |-> r.raised, parameterSet |-> model.parameterSet,
                  gof |-> opt.gof, x0 |-> opt.x0]

Store ==
    /\ pc = "done"
    /\ stored.count < MaxStores
    /\ Stored(coreStore(file, ResultFile, model, opt))
    /\ pc' = "none"
    /\ model' = NoModel
    /\ opt' = NoOpt
    /\ newGof' = NoValue
    /\ iters' = 0
    /\ proposed' = <<>>
    /\ loadInfo' = NoLoad
    /\ UNCHANGED <<hdfCall, aggVars, cli>>

\* what a load found in the file and what it recomputed
Loaded(c, repetition) ==
    loadInfo' = [outcome |-> c.outcome, repetition |-> repetition,
                 fileParameterSet |-> dataAt(file, modelPath(repetition), "parameterSet"),
                 fileGof |-> dataAt(file, optPath(repetition), "gof")[1],
                 fileX0 |-> dataAt(file, optPath(repetition), "x0"),
                 gof |-> c.opt.gof, x0 |-> c.opt.x0]

\* McCore(measData, loadFromFile, loadFromRepetition) returns the core c
LoadReturns(c, repetition) ==
    /\ c.outcome = "ok"
    /\ Loaded(c, repetition)
    /\ model' = c.model
    /\ opt' = c.opt

Load ==
    /\ pc = "none"
    /\ \E repetition \in RepIds :
          /\ HasRepetition(file, repetition)
          /\ LoadReturns(loadedCore(file, repetition), repetition)
    /\ pc' = "ready"
    /\ UNCHANGED <<newGof, iters, proposed, fileVars, stored, aggVars, cli>>

\* McCore(measData, loadFromFile, loadFromRepetition) raises
LoadRaise ==
    /\ pc = "none"
    /\ \E repetition \in RepIds :
          /\ HasRepetition(file, repetition)
          /\ loadedCore(file, repetition).outcome # "ok"
          /\ Loaded(loadedCore(file, repetition), repetition)
    /\ UNCHANGED <<coreVars, fileVars, stored, aggVars, cli>>

NextReload ==
    \/ Run
    \/ OptimizeStart
    \/ Iterate
    \/ IterateRaise
    \/ OptimizeReturn
    \/ Store
    \/ Load
    \/ LoadRaise

SpecReload == InitReload /\ [][NextReload]_vars

(* ------------------------ McModelHistogrammer --------------------------- *)
\* the result of a division by zero: not a number
NaN == <<0, 0>>

\* the nBins + 1 bin edges of the range r, uniform in linear space
binEdgesOf(r) ==
    [k \in 1 .. (r.nBins + 1) |->
        Rat(r.rangeMin * r.nBins + (k - 1) * (r.rangeMax - r.rangeMin), r.nBins)]

inRange(r, v) == r.rangeMin <= v /\ v <= r.rangeMax

\* v falls into bin k of the edges: the bins are half open, the last one
\* is closed
inBin(edges, k, v) ==
    /\ ~RatLess(Whole(v), edges[k])
    /\ \/ RatLess(Whole(v), edges[k + 1])
       \/ (k = Len(edges) - 1 /\ Whole(v) = edges[k + 1])

\* the weight of contribution i under the weighting of r
weightOf(r, m, i) ==
    IF r.weighting = "vol" THEN m.volumes[i]
    ELSE IF r.weighting = "num" THEN 1
    ELSE m.volumes[i] * m.volumes[i]

\* the bin heights: the sum of the weights of the contributions of each bin
histogramOf(r, m, edges) ==
    [k \in 1 .. r.nBins |->
        Whole(SumSeq([i \in 1 .. NContrib |->
                         IF inBin(edges, k, m.parameterSet[i - 1])
                         THEN weightOf(r, m, i - 1) ELSE 0]))]

\* the mode mean from the sum of the weights and the weighted sum
modeMean(total, weighted) == IF total = 0 THEN NaN ELSE Rat(weighted, total)

\* the modes totalValue and mean over the contributions in range
modesOf(r, m) ==
    [totalValue |->
         Whole(SumSeq([i \in 1 .. NContrib |->
                          IF inRange(r, m.parameterSet[i - 1])
                          THEN weightOf(r, m, i - 1) ELSE 0])),
     mean |->
         modeMean(SumSeq([i \in 1 .. NContrib |->
                             IF inRange(r, m.parameterSet[i - 1])
                             THEN weightOf(r, m, i - 1) ELSE 0]),
                  SumSeq([i \in 1 .. NContrib |->
                             IF inRange(r, m.parameterSet[i - 1])
                             THEN weightOf(r, m, i - 1) * m.parameterSet[i - 1] ELSE 0]))]

ModeKeys == {"totalValue", "mean"}

\* McModelHistogrammer(model, histRanges): per range the histogram, the
\* bin edges and the modes
McModelHistogrammer(m) ==
    [h \in HistIdx |->
        [hist     |-> histogramOf(HistRanges[h], m, binEdgesOf(HistRanges[h])),
         binEdges |-> binEdgesOf(HistRanges[h]),
         modes    |-> modesOf(HistRanges[h], m)]]

(* ----------------------------- McAnalysis ------------------------------- *)
RatAdd(a, b) == Rat(a[1] * b[2] + b[1] * a[2], a[2] * b[2])
RatSub(a, b) == Rat(a[1] * b[2] - b[1] * a[2], a[2] * b[2])

RECURSIVE SumRat(_)
SumRat(xs) == IF xs = <<>> THEN <<0, 1>> ELSE RatAdd(Head(xs), SumRat(Tail(xs)))

\* the mean of the values xs
meanOf(xs) == IF Len(xs) = 0 THEN NaN ELSE RatMul(SumRat(xs), <<1, Len(xs)>>)

\* the sum of the squared deviations of xs from m
sqDevs(xs, m) ==
    SumRat([i \in 1 .. Len(xs) |-> RatMul(RatSub(xs[i], m), RatSub(xs[i], m))])

\* the standard deviation of xs with the given ddof, kept as its square:
\* the sum of the squared deviations over len(xs) - ddof, not a number when
\* that divisor is zero
stdOf(xs, ddof) ==
    IF Len(xs) - ddof <= 0
    THEN NaN
    ELSE RatMul(sqDevs(xs, meanOf(xs)), <<1, Len(xs) - ddof>>)

\* mutant: the row is appended whether or not the repetition has one
setRowAppend(t, repetition, row) == Append(t, [rep |-> repetition, val |-> row])

\* table.loc[repetition] = row, dict[repetition] = row: an existing entry
\* is replaced where it stands, a new one is appended
setRow(t, repetition, row) ==
    IF \E i \in 1 .. Len(t) : t[i].rep = repetition
    THEN [i \in 1 .. Len(t) |->
             IF t[i].rep = repetition THEN [rep |-> repetition, val |-> row] ELSE t[i]]
    ELSE Append(t, [rep |-> repetition, val |-> row])

getRow(t, repetition) == t[CHOOSE i \in 1 .. Len(t) : t[i].rep = repetition].val

RECURSIVE Digits(_)
\* the decimal digits of the repetition id in the key "repetition<id>"
Digits(n) == IF n < 10 THEN <<n>> ELSE Append(Digits(n \div 10), n % 10)

RECURSIVE LexLess(_, _)
\* the order of the keys of an HDF5 group: by name
LexLess(a, b) ==
    IF a = <<>> THEN b # <<>>
    ELSE IF b = <<>> THEN FALSE
    ELSE IF Head(a) # Head(b) THEN Head(a) < Head(b)
    ELSE LexLess(Tail(a), Tail(b))

FirstKey(ids) == CHOOSE x \in ids : \A y \in ids \ {x} : LexLess(Digits(x), Digits(y))

RECURSIVE keysInOrder(_)
keysInOrder(ids) ==
    IF ids = {} THEN <<>> ELSE <<FirstKey(ids)>> \o keysInOrder(ids \ {FirstKey(ids)})

\* mutant: the keys are appended in two passes over the group
getNRepTwice(f) ==
    keysInOrder({g[2] : g \in {x \in f.groups : x[1] = "model"}})
        \o keysInOrder({g[2] : g \in {x \in f.groups : x[1] = "model"}})

\* McAnalysis.getNRep: the ids of the groups model/repetition<id>, in the
\* order of the keys
getNRep(f) == keysInOrder({g[2] : g \in {x \in f.groups : x[1] = "model"}})

\* the row of _concatOpts of a repetition
optRow(o) ==
    [scaling |-> o.x0[1], background |-> o.x0[2], gof |-> o.gof,
     accepted |-> Whole(o.accepted), step |-> Whole(o.step)]

\* modelI * x0[0] + x0[1]
scaledI(o) == [k \in QIdx |-> RatAdd(RatMul(Whole(o.modelI[k]), o.x0[1]), o.x0[2])]

\* the body of the loop of histAndLoadReps once the core c of the
\* repetition is loaded and histogrammed as mh
concatRep(sh, repetition, c, mh) ==
    [concatI |-> setRow(sh.concatI, repetition, scaledI(c.opt)),
     concatModes |->
         [h \in HistIdx |-> setRow(sh.concatModes[h], repetition, mh[h].modes)],
     concatHistograms |->
         [h \in HistIdx |-> setRow(sh.concatHistograms[h], repetition, mh[h].hist)],
     concatBinEdges |->
         [h \in HistIdx |-> setRow(sh.concatBinEdges[h], repetition, mh[h].binEdges)]]

RECURSIVE histAndLoadReps(_, _, _, _)
RECURSIVE histAndLoadRep(_, _, _, _, _)
\* mutant: a repetition that fails its reload check is aggregated anyway
histAndLoadRepAnyway(f, reps, sh, opts, c) ==
    histAndLoadReps(f, Tail(reps),
                    concatRep(sh, Head(reps), c, McModelHistogrammer(c.model)),
                    setRow(opts, Head(reps), optRow(c.opt)))

\* one pass of the loop of histAndLoadReps, c being the outcome of
\* McCore(measData, loadFromFile, loadFromRepetition)
histAndLoadRep(f, reps, sh, opts, c) ==
    IF c.outcome # "ok"
    THEN [raised |-> TRUE, shared |-> sh, concatOpts |-> opts]
    ELSE histAndLoadReps(f, Tail(reps),
                         concatRep(sh, Head(reps), c, McModelHistogrammer(c.model)),
                         setRow(opts, Head(reps), optRow(c.opt)))

\* McAnalysis.histAndLoadReps over the repetitions reps that remain
histAndLoadReps(f, reps, sh, opts) ==
    IF reps = <<>>
    THEN [raised |-> FALSE, shared |-> sh, concatOpts |-> opts]
    ELSE histAndLoadRep(f, reps, sh, opts, loadedCore(f, Head(reps)))

\* the column key of a table as a vector
column(t, key) == [i \in 1 .. Len(t) |-> t[i].val[key]]

\* McAnalysis.averageMode
averageMode(sh, h) ==
    [key \in ModeKeys |->
        [valMean |-> meanOf(column(sh.concatModes[h], key)),
         valStd  |-> stdOf(column(sh.concatModes[h], key), 1)]]

\* McAnalysis.averageModes
averageModes(sh) == [h \in HistIdx |-> averageMode(sh, h)]

\* the histograms of the repetitions of the list, one row per repetition
histsOf(sh, reps, h) == [i \in 1 .. Len(reps) |-> getRow(sh.concatHistograms[h], reps[i])]

\* the averaged histogram with the bin centres a whole width above the left edges
averagedFromNoHalf(hists, ddof, edges) ==
    [yMean  |-> [k \in 1 .. Len(hists[1]) |->
                    meanOf([i \in 1 .. Len(hists) |-> hists[i][k]])],
     yStd   |-> [k \in 1 .. Len(hists[1]) |->
                    stdOf([i \in 1 .. Len(hists) |-> hists[i][k]], ddof)],
     xWidth |-> [k \in 1 .. (Len(edges) - 1) |-> RatSub(edges[k + 1], edges[k])],
     xMean  |-> [k \in 1 .. (Len(edges) - 1) |->
                    RatAdd(edges[k], RatSub(edges[k + 1], edges[k]))]]

\* the averaged histogram from the rows hists and the bin edges
averagedFrom(hists, ddof, edges) ==
    [yMean  |-> [k \in 1 .. Len(hists[1]) |->
                    meanOf([i \in 1 .. Len(hists) |-> hists[i][k]])],
     yStd   |-> [k \in 1 .. Len(hists[1]) |->
                    stdOf([i \in 1 .. Len(hists) |-> hists[i][k]], ddof)],
     xWidth |-> [k \in 1 .. (Len(edges) - 1) |-> RatSub(edges[k + 1], edges[k])],
     xMean  |-> [k \in 1 .. (Len(edges) - 1) |->
                    RatAdd(edges[k], RatMul(<<1, 2>>, RatSub(edges[k + 1], edges[k])))]]

\* the assertion of averageHistogram: the bin edges of the first two
\* repetitions of the list are the same
edgesAsserted(sh, reps, h) ==
    Len(reps) > 1 =>
        getRow(sh.concatBinEdges[h], reps[1]) = getRow(sh.concatBinEdges[h], reps[2])

\* McAnalysis.averageHistogram
averageHistogram(sh, reps, h) ==
    averagedFrom(histsOf(sh, reps, h), IF Len(reps) > 1 THEN 1 ELSE 0,
                 getRow(sh.concatBinEdges[h], reps[1]))

\* McAnalysis.averageOpts, on the table of the instance
OptKeys == {"scaling", "background", "gof", "accepted", "step"}

averageOpts(opts) ==
    [key \in OptKeys |->
        [valMean |-> meanOf(column(opts, key)), valStd |-> stdOf(column(opts, key), 1)]]

\* McAnalysis.averageI, over every entry of _concatI
averageI(sh) ==
    [modelIMean |-> [k \in QIdx |-> meanOf([i \in 1 .. Len(sh.concatI) |-> sh.concatI[i].val[k]])],
     modelIStd  |-> [k \in QIdx |-> stdOf([i \in 1 .. Len(sh.concatI) |-> sh.concatI[i].val[k]], 0)]]

\* McAnalysis.__init__ after histAndLoadReps, whose result is l
analysisAveraged(reps, l) ==
    IF l.raised
    THEN [NoAnalysis EXCEPT !.status = "raised", !.repetitionList = reps,
                            !.concatOpts = l.concatOpts]
    ELSE IF \E h \in HistIdx : ~edgesAsserted(l.shared, reps, h)
         THEN [NoAnalysis EXCEPT !.status = "raised", !.repetitionList = reps,
                                 !.concatOpts = l.concatOpts,
                                 !.averagedModes = averageModes(l.shared)]
         ELSE [instance |-> 0, again |-> FALSE,
               status |-> "ok", repetitionList |-> reps, concatOpts |-> l.concatOpts,
               averagedModes |-> averageModes(l.shared),
               averagedHistograms |->
                   [h \in HistIdx |-> averageHistogram(l.shared, reps, h)],
               averagedOpts |-> averageOpts(l.concatOpts),
               averagedI |-> averageI(l.shared)]

\* McAnalysis(inputFile, measData, histRanges) on the file f, sh being the
\* class-level dictionaries at the call
McAnalysis(f, sh) == histAndLoadReps(f, getNRep(f), sh, <<>>)

(* -------------------- aggregation of result files ----------------------- *)
\* the number of McAnalysis instances constructed in one process
MaxAnalyses == 2

\* the ensembles of the result files that are aggregated
AggModels == {m \in DrawnModels : \A i \in ContribIdx : i # 0 => m.parameterSet[i] = 1}

RECURSIVE storeRuns(_, _)
\* the result file after the runs of the repetitions of ms, each stored by
\* McCore.store into an empty file
storeRuns(f, ms) ==
    IF ms = <<>>
    THEN f
    ELSE storeRuns(coreStore(f, ResultFile,
                             freshCore(Head(ms).model, Head(ms).opt).model,
                             freshCore(Head(ms).model, Head(ms).opt).opt).file,
                   Tail(ms))

RunOf(m, repetition) ==
    [model |-> m, opt |-> CHOOSE o \in RunOpts : o.repetition = repetition]

\* repetition ids of one and of two digits
StoredIds == {1, 2, 10}

\* the core of the repetition id as it is stored: after its construction,
\* or with a gof that an earlier build computed otherwise
StoredCore(c, id, drifted) ==
    [model |-> c.model,
     opt   |-> IF drifted
               THEN Drifted([c.opt EXCEPT !.repetition = id], "gof", <<101, 100>>)
               ELSE [c.opt EXCEPT !.repetition = id]]

RECURSIVE storeCores(_, _, _)
\* the result file after McCore.store of the repetitions ids, those of the
\* set bad with a drifted gof
storeCores(f, ids, bad) ==
    IF ids = <<>>
    THEN f
    ELSE storeCores(coreStore(f, ResultFile,
                              StoredCore(EarlierCore, Head(ids), Head(ids) \in bad).model,
                              StoredCore(EarlierCore, Head(ids), Head(ids) \in bad).opt).file,
                    Tail(ids), bad)

\* result files that hold the two-digit id, at most one repetition drifted
IdFiles ==
    {storeCores(EmptyFile, keysInOrder(S), bad) :
        S \in {T \in SUBSET StoredIds : 10 \in T},
        bad \in {{}} \cup {{id} : id \in StoredIds}}

\* the result files: of every non-empty set of repetitions, in every
\* combination of ensembles, the files of an earlier build, and the files
\* with ids of two digits
AggFiles ==
    {storeRuns(EmptyFile, [i \in 1 .. Len(ids) |-> RunOf(ms[i], ids[i])]) :
        ids \in {keysInOrder(S) : S \in (SUBSET RepIds) \ {{}}},
        ms \in [1 .. MaxRep -> AggModels]}
    \cup (EarlierFiles \ {EmptyFile})
    \cup IdFiles

\* the stored histograms of a repetition and a range
histSnapshot(sh, h, repetition) ==
    <<KV("hist", PyArray("ndarray", "f8", getRow(sh.concatHistograms[h], repetition))),
      KV("binEdges", PyArray("ndarray", "f8", getRow(sh.concatBinEdges[h], repetition))),
      KV("totalValue", PyScalar("f8", getRow(sh.concatModes[h], repetition).totalValue)),
      KV("mean", PyScalar("f8", getRow(sh.concatModes[h], repetition).mean))>>

RECURSIVE storeHists(_, _, _, _)
\* mh.store(inputFile, repetition) of the repetitions reps that were
\* histogrammed, for the range h and the ones after it
storeHists(r, reps, sh, h) ==
    IF h > Len(HistRanges) THEN r
    ELSE IF reps = <<>> THEN storeHists(r, reps, sh, h + 1)
    ELSE storeHists(storeKeys(r, ResultFile, <<"histograms", h, Head(reps)>>,
                              histSnapshot(sh, h, Head(reps))),
                    Tail(reps), sh, h)

\* the input file after McAnalysis(inputFile, ..., store), l being the
\* outcome of histAndLoadReps
histStored(f, l, store) ==
    IF store
    THEN storeHists(Ok(f), [i \in 1 .. Len(l.concatOpts) |-> l.concatOpts[i].rep],
                    l.shared, 1).file
    ELSE f

\* the ensembles and the optimization states that a result file holds
resultsIn(f) == [k \in {x \in DOMAIN f.data : x[1][1] # "histograms"} |-> f.data[k]]

\* McAnalysis(inputFile, ...) returns or raises, l being the outcome of
\* histAndLoadReps and a the instance after the averaging
Averaged(l, a, raised) ==
    /\ a.status = (IF raised THEN "raised" ELSE "ok")
    /\ shared' = l.shared
    /\ analysis' = [a EXCEPT !.instance = analysis.instance + 1,
                             !.again = (resultsIn(file') = resultsIn(file))]

Analysed(l, raised) == Averaged(l, analysisAveraged(getNRep(file'), l), raised)

\* McAnalysis(inputFile, measData, histRanges) on a result file, returning
Analyse ==
    /\ analysis.instance < MaxAnalyses
    /\ \E f \in AggFiles \cup ({file} \ {EmptyFile}), store \in BOOLEAN :
          /\ file' = histStored(f, McAnalysis(f, shared), store)
          /\ Analysed(McAnalysis(f, shared), FALSE)
    /\ UNCHANGED <<coreVars, hdfCall, reloadVars, cli>>

\* McAnalysis(inputFile, measData, histRanges) on a result file, raising
AnalyseRaise ==
    /\ analysis.instance < MaxAnalyses
    /\ \E f \in AggFiles \cup ({file} \ {EmptyFile}), store \in BOOLEAN :
          /\ file' = histStored(f, McAnalysis(f, shared), store)
          /\ Analysed(McAnalysis(f, shared), TRUE)
    /\ UNCHANGED <<coreVars, hdfCall, reloadVars, cli>>

NextAgg ==
    \/ Analyse
    \/ AnalyseRaise

SpecAgg == Init /\ [][NextAgg]_vars

(* ------------- averageHistogram on the tables it is handed -------------- *)
\* the number of repetitions whose histograms are averaged
MaxEdgeReps == 3

\* the histograms and the bin edges that a histogrammer hands over for a
\* repetition
HistChoices == {<<Whole(1), Whole(0)>>, <<Whole(1), Whole(2)>>}
EdgeChoices == {binEdgesOf(HistRanges[1]),
                binEdgesOf([HistRanges[1] EXCEPT !.rangeMax = @ + 1])}

\* the dictionary {repetition: rows[repetition]} filled in the order reps
dictOf(reps, rows) == [i \in 1 .. Len(reps) |-> [rep |-> reps[i], val |-> rows[reps[i]]]]

\* averageHistograms on the dictionaries sh: raises in the assertion, or
\* sets the averaged histograms
histogramsAveraged(sh, reps) ==
    IF \E h \in HistIdx : ~edgesAsserted(sh, reps, h)
    THEN [NoAnalysis EXCEPT !.status = "raised", !.repetitionList = reps]
    ELSE [NoAnalysis EXCEPT !.status = "ok", !.repetitionList = reps,
                            !.averagedHistograms =
                                [h \in HistIdx |-> averageHistogram(sh, reps, h)]]

\* averageHistograms after the loop of histAndLoadReps has filled the
\* dictionaries of the repetitions reps with hists and edges
AverageHistograms ==
    /\ \E S \in (SUBSET (1 .. MaxEdgeReps)) \ {{}} :
          \E hists \in [S -> HistChoices], edges \in [S -> EdgeChoices] :
             /\ shared' = [NoShared EXCEPT
                              !.concatHistograms = [h \in HistIdx |-> dictOf(keysInOrder(S), hists)],
                              !.concatBinEdges = [h \in HistIdx |-> dictOf(keysInOrder(S), edges)]]
             /\ analysis' = histogramsAveraged(shared', keysInOrder(S))
    /\ UNCHANGED <<coreVars, fileVars, reloadVars, cli>>

NextEdges == AverageHistograms

SpecEdges == Init /\ [][NextEdges]_vars

(* ------------------- McSAS3_cli_opt: the command line runner ------------ *)
\* the paths a caller may name: a data file that exists and one that does
\* not; configuration files that exist and parse, exist and do not parse,
\* do not exist, exist without the suffix .yaml
DataFiles == {"data.pdh", "absent.pdh"}
ConfigFiles == {"config.yaml", "broken.yaml", "absent.yaml", "config.txt"}

\* the validator of dataFile: value.exists()
fileExists(value) == value \notin {"absent.pdh", "absent.yaml"}

\* the validator of readConfigFile and runConfigFile: value.exists() and
\* value.suffix == ".yaml"
checkConfig(value) ==
    /\ value \notin {"absent.pdh", "absent.yaml"}
    /\ value \in {"config.yaml", "broken.yaml", "absent.yaml"}

\* yaml.safe_load(f) returns
safeLoad(value) == value = "config.yaml"

\* mutant: the prior results file is left in place
unlinkKept(f) == f

\* if self.resultFile.is_file(): self.resultFile.unlink(); a file that does
\* not exist reads as the empty file
unlink(f) == IF f # EmptyFile THEN EmptyFile ELSE f

\* mds.store(self.resultFile): the data is written with _HDFstoreKV
mcDataStore(f) ==
    HDFstoreKV(f, ResultFile, <<"mcdata", 0>>, "I",
               PyArray("ndarray", "f8", [k \in QIdx |-> Whole(measI[k])])).file

\* mh.run(md, self.resultFile) as far as it stored n repetitions
mcHatRun(f, n) == storeCores(f, [i \in 1 .. n |-> i], {})

\* McSAS3_cli_opt(dataFile, resultFile, readConfigFile, runConfigFile): the
\* validators pass (raised = FALSE) or one of them fails
CliConstructed(d, rc, oc, raised) ==
    /\ cli.pc \in {"none", "rejected", "constructed", "finished", "failed"}
    /\ raised = ~(fileExists(d) /\ checkConfig(rc) /\ checkConfig(oc))
    /\ cli' = [NoCli EXCEPT !.pc = IF raised THEN "rejected" ELSE "constructed",
                            !.dataFile = d, !.readConfigFile = rc, !.runConfigFile = oc,
                            !.prior = file]
    /\ UNCHANGED <<coreVars, fileVars, reloadVars, aggVars>>

CliNew == \E d \in DataFiles, rc \in ConfigFiles, oc \in ConfigFiles : CliConstructed(d, rc, oc, FALSE)

CliNewRaise == \E d \in DataFiles, rc \in ConfigFiles, oc \in ConfigFiles : CliConstructed(d, rc, oc, TRUE)

\* run() is called: any prior results file is removed
CliRunStart ==
    /\ cli.pc \in {"constructed", "finished", "failed"}
    /\ file' = unlink(file)
    /\ cli' = [cli EXCEPT !.pc = "unlinked", !.prior = file, !.dataStored = FALSE,
                          !.repetitions = 0]
    /\ UNCHANGED <<coreVars, hdfCall, reloadVars, aggVars>>

\* the read configuration is opened and parsed
CliReadConfig ==
    /\ cli.pc = "unlinked"
    /\ cli' = [cli EXCEPT !.pc = IF safeLoad(cli.readConfigFile) THEN "readConfig" ELSE "failed"]
    /\ UNCHANGED <<coreVars, fileVars, reloadVars, aggVars>>

\* McData1D(filename, **readDict) returns and the data is stored in the
\* result file, or McData1D raises
CliLoadData ==
    /\ cli.pc = "readConfig"
    /\ \E loaded \in BOOLEAN :
          /\ file' = IF loaded THEN mcDataStore(file) ELSE file
          /\ cli' = [cli EXCEPT !.pc = IF loaded THEN "dataStored" ELSE "failed",
                                !.dataStored = loaded]
    /\ UNCHANGED <<coreVars, hdfCall, reloadVars, aggVars>>

\* the run configuration is opened and parsed
CliRunConfig ==
    /\ cli.pc = "dataStored"
    /\ cli' = [cli EXCEPT !.pc = IF safeLoad(cli.runConfigFile) THEN "optRead" ELSE "failed"]
    /\ UNCHANGED <<coreVars, fileVars, reloadVars, aggVars>>

\* McHat(seed = None, **optDict).run(md, resultFile) stores its MaxRep
\* repetitions and returns, or raises after it stored n of them
CliMcHat ==
    /\ cli.pc = "optRead"
    /\ \E n \in 0 .. MaxRep :
          /\ file' = mcHatRun(file, n)
          /\ cli' = [cli EXCEPT !.pc = IF n = MaxRep THEN "finished" ELSE "failed",
                                !.repetitions = n]
    /\ UNCHANGED <<coreVars, hdfCall, reloadVars, aggVars>>

NextCli ==
    \/ CliNew
    \/ CliNewRaise
    \/ CliRunStart
    \/ CliReadConfig
    \/ CliLoadData
    \/ CliRunConfig
    \/ CliMcHat

SpecCli == InitReload /\ [][NextCli]_vars

(* ------------------------- claims on McCore ----------------------------- *)
\* a step of the model that is an iterate call which returned
IterateStep == iters' = iters + 1 /\ pc' = "optimizing"

LastProposed == proposed[Len(proposed)]

\* C1: an iterate call accepts its pick if and only if the trial GOF is
\* strictly lower than the current GOF (a tie is rejected); the stored gof
\* strictly decreases at an accepted step and never increases at any step.
C1_StrictDescent ==
    [][IterateStep =>
          /\ (opt'.accepted = opt.accepted + 1) <=> (newGof'[1] * opt.gof[2] < opt.gof[1] * newGof'[2])
          /\ (opt'.accepted = opt.accepted + 1) =>
                 (opt'.gof[1] * opt.gof[2] < opt.gof[1] * opt'.gof[2])
          /\ opt'.gof[1] * opt.gof[2] <= opt.gof[1] * opt'.gof[2]]_vars

\* C1 witness: after an accepted step, a later pick tied with the current
\* GOF and was rejected
C1_Witness ==
    /\ pc = "optimizing"
    /\ Len(proposed) >= 2
    /\ opt.accepted >= 1
    /\ LastProposed.acc = -1
    /\ newGof = opt.gof

\* C2: a rejected step (newGof >= gof) leaves modelI, x0, gof, parameterSet,
\* volumes and accepted as they were and increments step by one.
C2_RejectFrame ==
    [][(IterateStep /\ ~(newGof'[1] * opt.gof[2] < opt.gof[1] * newGof'[2])) =>
          /\ opt'.modelI = opt.modelI
          /\ opt'.x0 = opt.x0
          /\ opt'.gof = opt.gof
          /\ model'.parameterSet = model.parameterSet
          /\ model'.volumes = model.volumes
          /\ opt'.accepted = opt.accepted
          /\ opt'.step = opt.step + 1]_vars

\* C2 witness: a step was rejected whose trial intensity and trial scaling
\* differ from the committed ones
C2_Witness ==
    /\ pc = "optimizing"
    /\ Len(proposed) >= 1
    /\ LastProposed.acc = -1
    /\ opt.testModelI # opt.modelI
    /\ opt.testX0 # opt.x0
    /\ model.pickParameters # model.parameterSet[LastProposed.re]

\* C3: whenever a core exists, modelI is 1/nContrib times the sum of the
\* kernel intensities of all rows of parameterSet, and volumes[i] is the
\* kernel volume of parameterSet[i].
C3_ModelIConsistent ==
    HasCore =>
        /\ \A k \in QIdx :
              NContrib * opt.modelI[k] =
                  SumSeq([i \in 1 .. NContrib |-> calcModelIV(model.parameterSet[i - 1]).I[k]])
        /\ \A i \in ContribIdx :
              model.volumes[i] = calcModelIV(model.parameterSet[i]).V

\* C3 witness: two picks were accepted, one of them into contribution 1
C3_Witness ==
    /\ pc = "optimizing"
    /\ opt.accepted >= 2
    /\ \E j \in 1 .. Len(proposed) : proposed[j].acc = 1

\* C4: optimize calls iterate only while accepted < maxAccept and
\* step < maxIter and gof > convCrit, returns only when one of the three is
\* false, and has then made at most maxIter - step iterations, step being the
\* step counter at the call.
C4_LoopExactly ==
    [][/\ (pc = "optimizing" /\ iters' = iters + 1) =>
              /\ opt.accepted < opt.maxAccept
              /\ opt.step < opt.maxIter
              /\ opt.convCrit[1] * opt.gof[2] < opt.gof[1] * opt.convCrit[2]
       /\ (pc = "optimizing" /\ pc' = "done") =>
              /\ \/ ~(opt.accepted < opt.maxAccept)
                 \/ ~(opt.step < opt.maxIter)
                 \/ ~(opt.convCrit[1] * opt.gof[2] < opt.gof[1] * opt.convCrit[2])
              /\ iters <= opt.maxIter - (opt.step - iters)]_vars

\* C4 witness: optimize returned because the step limit alone was reached
C4_Witness ==
    /\ pc = "done"
    /\ iters = MaxIter
    /\ opt.step = opt.maxIter
    /\ opt.accepted < opt.maxAccept
    /\ opt.convCrit[1] * opt.gof[2] < opt.gof[1] * opt.convCrit[2]

\* C5: accepted <= step in every state of a run; an iterate call that
\* returns increments step by exactly 1 and accepted by 0 or 1, and no step
\* of a run decreases either counter.
C5_Counters ==
    [][/\ HasCore' => opt'.accepted <= opt'.step
       /\ IterateStep =>
              /\ opt'.step = opt.step + 1
              /\ opt'.accepted \in {opt.accepted, opt.accepted + 1}
       /\ (HasCore /\ HasCore') =>
              /\ opt'.step >= opt.step
              /\ opt'.accepted >= opt.accepted]_vars

\* C5 witness: a run with accepted and rejected steps
C5_Witness ==
    /\ pc = "done"
    /\ opt.accepted >= 1
    /\ opt.accepted < opt.step

\* C6: the contribution proposed at a step is the one at index
\* step mod nContrib, accept commits to the index reEvaluate subtracted, and
\* any nContrib consecutive steps propose every index exactly once.
C6_RoundRobin ==
    /\ \A j \in 1 .. Len(proposed) :
          /\ proposed[j].re = proposed[j].step % NContrib
          /\ proposed[j].acc \in {-1, proposed[j].re}
          /\ j > 1 => proposed[j].step = proposed[j - 1].step + 1
    /\ \A j \in 1 .. (Len(proposed) - NContrib + 1) :
          \A i \in ContribIdx :
              Cardinality({d \in 0 .. (NContrib - 1) : proposed[j + d].re = i}) = 1

\* C6 witness: the round robin came back to contribution 0 and a pick was
\* committed to contribution 1
C6_Witness ==
    /\ Len(proposed) > NContrib
    /\ LastProposed.re = 0
    /\ \E j \in 1 .. Len(proposed) : proposed[j].acc = 1

(* ----------------------- claims on _HDFstoreKV -------------------------- *)
\* C9: after a call of _HDFstoreKV with a filename, a path, a key and a
\* value, the call has returned and reading path/key gives the value (a
\* tuple or list as an array), whether or not a dataset was there before.
C9_WriteThenRead ==
    (hdfCall.filename # NoFile /\ hdfCall.path # NoPath /\ hdfCall.key # NoKey
        /\ hdfCall.value.kind # "None") =>
        /\ hdfCall.raised = "none"
        /\ <<hdfCall.path, hdfCall.key>> \in DOMAIN file.data
        /\ file.data[<<hdfCall.path, hdfCall.key>>].shape = hdfCall.value.shape
        /\ file.data[<<hdfCall.path, hdfCall.key>>].data = hdfCall.value.data

(* ------------------- claims on McCore.store and load -------------------- *)
\* a and d agree to three significant figures: they are equal, or their
\* difference is below a hundredth of the power of ten at or below their mean
AgreeTo3(a, d) ==
    \/ a = d
    \/ \E e \in Decades :
          /\ ScaledLeq(e, 2 * a[2] * d[2], Abs(a[1]) * d[2] + Abs(d[1]) * a[2])
          /\ ~ScaledLeq(e + 1, 2 * a[2] * d[2], Abs(a[1]) * d[2] + Abs(d[1]) * a[2])
          /\ ~ScaledLeq(e, a[2] * d[2], 100 * Abs(a[1] * d[2] - d[1] * a[2]))

\* the ensemble that a file holds, as a parameter table
TableOf(rows) == [i \in ContribIdx |-> rows[i + 1][1]]

\* C7: a core constructed with loadFromFile recomputes modelI, x0 and gof
\* from the loaded ensemble; the construction raises whenever the recomputed
\* gof, scaling or background disagrees with the stored value to 3
\* significant figures (and returns when all three agree), and when it
\* raises no core is produced.
C7_ReloadChecked ==
    loadInfo.outcome # "none" =>
        /\ loadInfo.gof = Match(AddContribs(TableOf(loadInfo.fileParameterSet), 0,
                                            [k \in QIdx |-> 0]),
                                loadInfo.fileX0).gof
        /\ loadInfo.x0 = Match(AddContribs(TableOf(loadInfo.fileParameterSet), 0,
                                           [k \in QIdx |-> 0]),
                               loadInfo.fileX0).x0
        /\ (loadInfo.outcome = "ok") <=>
               /\ AgreeTo3(loadInfo.fileGof, loadInfo.gof)
               /\ AgreeTo3(loadInfo.fileX0[1], loadInfo.x0[1])
               /\ AgreeTo3(loadInfo.fileX0[2], loadInfo.x0[2])
        /\ (loadInfo.outcome # "ok") => (pc = "none" /\ model = NoModel /\ opt = NoOpt)
        /\ (loadInfo.outcome = "ok" /\ pc = "ready") =>
               /\ model.parameterSet = TableOf(loadInfo.fileParameterSet)
               /\ opt.gof = loadInfo.gof
               /\ opt.x0 = loadInfo.x0
               /\ \A k \in QIdx :
                     NContrib * opt.modelI[k] =
                         SumSeq([i \in 1 .. NContrib |->
                                     calcModelIV(model.parameterSet[i - 1]).I[k]])

\* C7 witness: a load raised although the stored gof and the stored scaling
\* agree with the recomputed ones: the background alone is off
C7_Witness ==
    /\ loadInfo.outcome = "mismatch"
    /\ pc = "none"
    /\ AgreeTo3(loadInfo.fileGof, loadInfo.gof)
    /\ AgreeTo3(loadInfo.fileX0[1], loadInfo.x0[1])
    /\ ~AgreeTo3(loadInfo.fileX0[2], loadInfo.x0[2])

\* C8: round trip: after store(filename) of a state reached by optimize,
\* McCore(measData, loadFromFile = filename, loadFromRepetition =
\* opt.repetition) succeeds, the reloaded ensemble equals the stored one and
\* the recomputed gof, scaling and background match the stored values.
C8_RoundTrip ==
    (/\ loadInfo.outcome # "none"
     /\ stored.count > 0
     /\ stored.raised = "none"
     /\ loadInfo.repetition = stored.repetition) =>
        /\ loadInfo.outcome = "ok"
        /\ TableOf(loadInfo.fileParameterSet) = stored.parameterSet
        /\ AgreeTo3(stored.gof, loadInfo.gof)
        /\ AgreeTo3(stored.x0[1], loadInfo.x0[1])
        /\ AgreeTo3(stored.x0[2], loadInfo.x0[2])

(* ------------------------- claims on McAnalysis ------------------------- *)
\* the histogrammer results of the repetitions that the last McAnalysis
\* found in its input file, for the range h
FoundIn(h) ==
    [i \in 1 .. Len(analysis.repetitionList) |->
        McModelHistogrammer(loadedCore(file, analysis.repetitionList[i]).model)[h]]

\* the square of the sample standard deviation (ddof = 1) of xs, two or
\* more values: (n * sum(x^2) - sum(x)^2) / (n * (n - 1))
SampleVariance(xs) ==
    RatMul(RatSub(RatMul(Whole(Len(xs)), SumRat([i \in 1 .. Len(xs) |-> RatMul(xs[i], xs[i])])),
                  RatMul(SumRat(xs), SumRat(xs))),
           <<1, Len(xs) * (Len(xs) - 1)>>)

\* C10: when exactly one repetition is aggregated every yStd of every
\* averaged histogram and every mode valStd is 0; with more than one
\* repetition both are the sample standard deviation (ddof = 1) across the
\* repetitions.
C10_SingleRepStd ==
    analysis.status = "ok" =>
        \A h \in HistIdx :
            IF Len(analysis.repetitionList) = 1
            THEN /\ \A k \in 1 .. HistRanges[h].nBins :
                       analysis.averagedHistograms[h].yStd[k] = <<0, 1>>
                 /\ \A key \in ModeKeys :
                       analysis.averagedModes[h][key].valStd = <<0, 1>>
            ELSE /\ \A k \in 1 .. HistRanges[h].nBins :
                       analysis.averagedHistograms[h].yStd[k] =
                           SampleVariance([i \in 1 .. Len(FoundIn(h)) |-> FoundIn(h)[i].hist[k]])
                 /\ \A key \in ModeKeys :
                       analysis.averagedModes[h][key].valStd =
                           SampleVariance([i \in 1 .. Len(FoundIn(h)) |-> FoundIn(h)[i].modes[key]])

\* C11: for every histogram range the aggregator checks that the bin edges
\* of all aggregated repetitions are identical: with two or more
\* repetitions it fails whenever the edges of any two of them differ.
C11_AllEdgesCompared ==
    (analysis.status = "ok" /\ Len(analysis.repetitionList) >= 2) =>
        \A h \in HistIdx :
            \A i, j \in 1 .. Len(analysis.repetitionList) :
                getRow(shared.concatBinEdges[h], analysis.repetitionList[i])
                    = getRow(shared.concatBinEdges[h], analysis.repetitionList[j])

\* the ids are in ascending numeric order
Ascending(ids) == \A i, j \in 1 .. Len(ids) : i < j => ids[i] < ids[j]

RowIds(t) == [i \in 1 .. Len(t) |-> t[i].rep]

\* C12: the repetition list and the rows of the concatenated optimization
\* and mode tables are in ascending numeric order of repetition id, for any
\* set of stored ids, ids of different numbers of digits included.
C12_AscendingIds ==
    analysis.status # "none" =>
        /\ Ascending(analysis.repetitionList)
        /\ Ascending(RowIds(analysis.concatOpts))
        /\ \A h \in HistIdx : Ascending(RowIds(shared.concatModes[h]))

\* the elements of a list
Elems(ids) == {ids[i] : i \in 1 .. Len(ids)}

\* C13: getNRep records exactly the repetition ids stored under the model
\* group of the input file, each once; a gap in the ids does not abort the
\* aggregation (it aborts only when a repetition fails to load), and the
\* list holds nothing of an earlier call.
C13_IdsFound ==
    analysis.status # "none" =>
        /\ Elems(analysis.repetitionList) = {r \in StoredIds \cup RepIds : modelPath(r) \in file.groups}
        /\ Len(analysis.repetitionList) = Cardinality(Elems(analysis.repetitionList))
        /\ analysis.status = "raised" =>
               \E r \in Elems(analysis.repetitionList) : loadedCore(file, r).outcome # "ok"

\* C13 witness: the second instance of a process aggregated a file with the
\* ids 2 and 10 alone, the first one had aggregated repetition 1
C13_Witness ==
    /\ analysis.instance = 2
    /\ analysis.status = "ok"
    /\ Elems(analysis.repetitionList) = {2, 10}
    /\ \E i \in 1 .. Len(shared.concatI) : shared.concatI[i].rep = 1

\* C14: a second McAnalysis on the same result file yields the averaged
\* histograms, modes, optimization parameters and model intensity of the
\* first one, in the same process and with store = True too.
C14_Idempotent ==
    [][(/\ analysis.status = "ok"
        /\ analysis'.instance = analysis.instance + 1
        /\ analysis'.again) =>
           /\ analysis'.status = "ok"
           /\ analysis'.averagedHistograms = analysis.averagedHistograms
           /\ analysis'.averagedModes = analysis.averagedModes
           /\ analysis'.averagedOpts = analysis.averagedOpts
           /\ analysis'.averagedI = analysis.averagedI]_vars

\* C14 witness: two repetitions with different ensembles were aggregated a
\* second time, the histograms of the first time being stored in the file
C14_Witness ==
    /\ analysis.instance = 2
    /\ analysis.again
    /\ analysis.status = "ok"
    /\ Len(analysis.repetitionList) = 2
    /\ analysis.averagedModes[1]["mean"].valStd \notin {NaN, <<0, 1>>}
    /\ \A r \in Elems(analysis.repetitionList) : <<"histograms", 1, r>> \in file.groups

\* scaling_r * modelI_r + background_r at the Q point k for the repetitions
\* that the last McAnalysis found in its input file
ScaledAt(k) ==
    [i \in 1 .. Len(analysis.repetitionList) |->
        RatAdd(RatMul(Whole(loadedCore(file, analysis.repetitionList[i]).opt.modelI[k]),
                      loadedCore(file, analysis.repetitionList[i]).opt.x0[1]),
               loadedCore(file, analysis.repetitionList[i]).opt.x0[2])]

\* C15: modelIMean is, per Q point, the mean over exactly the repetitions
\* found in the input file of scaling_r * modelI_r + background_r, and
\* modelIStd is the standard deviation of that quantity across those
\* repetitions.
C15_MeanOverFound ==
    analysis.status = "ok" =>
        \A k \in QIdx :
            /\ analysis.averagedI.modelIMean[k] = RatMul(SumRat(ScaledAt(k)), <<1, Len(ScaledAt(k))>>)
            /\ analysis.averagedI.modelIStd[k] = stdOf(ScaledAt(k), 0)

(* ----------------------- claims on failing solvers ---------------------- *)
\* an iterate call in whose trial evaluation the solver failed
TrialFails ==
    /\ pc = "optimizing"
    /\ iters' = iters + 1
    /\ \E pk \in ParamValues : model'.pickParameters = pk /\ iterate(model, opt, pk).raised

\* C16: when the solver fails with IllConditioned in a trial step the step
\* is rejected: the error does not leave iterate and optimize, the committed
\* modelI, x0, gof, parameterSet, volumes and accepted are unchanged, and
\* the run continues with the next step.
C16_TrialFailureRejected ==
    [][TrialFails =>
          /\ pc' = "optimizing"
          /\ opt'.modelI = opt.modelI
          /\ opt'.x0 = opt.x0
          /\ opt'.gof = opt.gof
          /\ model'.parameterSet = model.parameterSet
          /\ model'.volumes = model.volumes
          /\ opt'.accepted = opt.accepted
          /\ opt'.step = opt.step + 1]_vars

\* C17: an error while a stored repetition is reloaded (a reload mismatch
\* in any single repetition) aborts the whole aggregation: the construction
\* of McAnalysis fails and no averaged output is produced.
C17_ReloadErrorAborts ==
    (/\ analysis.status # "none"
     /\ \E r \in Elems(analysis.repetitionList) : loadedCore(file, r).outcome # "ok") =>
        /\ analysis.status = "raised"
        /\ analysis.averagedModes = <<>>
        /\ analysis.averagedHistograms = <<>>
        /\ analysis.averagedOpts = <<>>
        /\ analysis.averagedI = <<>>

\* C17 witness: of three repetitions the second in the list failed its
\* reload check after the first was aggregated, and the third was not loaded
C17_Witness ==
    /\ analysis.status = "raised"
    /\ Len(analysis.repetitionList) = 3
    /\ RowIds(analysis.concatOpts) = <<analysis.repetitionList[1]>>
    /\ loadedCore(file, analysis.repetitionList[2]).outcome = "mismatch"
    /\ loadedCore(file, analysis.repetitionList[3]).outcome = "ok"

\* C18: if the initial gof is at or below convCrit, optimize performs no
\* iteration: it returns with accepted = 0 and step = 0 and with the
\* parameterSet, volumes, modelI, x0 and gof of the initialization.
C18_ConvergedAtStart ==
    [][(/\ pc \in {"ready", "optimizing", "done"}
        /\ proposed = <<>>
        /\ ~(opt.convCrit[1] * opt.gof[2] < opt.gof[1] * opt.convCrit[2])) =>
           /\ pc' \in {"optimizing", "done"}
           /\ proposed' = <<>>
           /\ iters' = 0
           /\ model' = model
           /\ opt' = opt
           /\ opt.step = 0
           /\ opt.accepted = 0]_vars

\* C18 witness: optimize returned without an iteration although neither the
\* step limit nor the accept limit was reached
C18_Witness ==
    /\ pc = "done"
    /\ proposed = <<>>
    /\ ~(opt.convCrit[1] * opt.gof[2] < opt.gof[1] * opt.convCrit[2])
    /\ opt.step < opt.maxIter
    /\ opt.accepted < opt.maxAccept

\* the bin edges from which the averaged histogram of range h is computed
EdgesOf(h) == getRow(shared.concatBinEdges[h], analysis.repetitionList[1])

\* C21: the averaged histogram of every range has one row per bin (one less
\* than the number of bin edges, as many as yMean and yStd have), with
\* xWidth[k] = edges[k+1] - edges[k] and xMean[k] = edges[k] + xWidth[k]/2.
C21_BinCentres ==
    analysis.status = "ok" =>
        \A h \in HistIdx :
            /\ Len(analysis.averagedHistograms[h].xWidth) = Len(EdgesOf(h)) - 1
            /\ Len(analysis.averagedHistograms[h].xMean) = Len(EdgesOf(h)) - 1
            /\ Len(analysis.averagedHistograms[h].yMean) = Len(EdgesOf(h)) - 1
            /\ Len(analysis.averagedHistograms[h].yStd) = Len(EdgesOf(h)) - 1
            /\ \A k \in 1 .. (Len(EdgesOf(h)) - 1) :
                  /\ RatAdd(EdgesOf(h)[k], analysis.averagedHistograms[h].xWidth[k]) = EdgesOf(h)[k + 1]
                  /\ RatAdd(analysis.averagedHistograms[h].xMean[k],
                            RatMul(<<1, 2>>, analysis.averagedHistograms[h].xWidth[k]))
                        = EdgesOf(h)[k + 1]

C21_Witness ==
    /\ analysis.status = "ok"
    /\ Len(analysis.repetitionList) = MaxEdgeReps
    /\ EdgesOf(1) = <<Whole(1), Whole(2), Whole(3)>>
    /\ analysis.averagedHistograms[1].xMean = <<<<3, 2>>, <<5, 2>>>>

\* C22: the concatenated intensities, modes, histograms and bin edges from
\* which a McAnalysis instance computes its averages hold entries only of
\* the repetitions found in its own input file, also when another file was
\* aggregated before in the same process.
C22_OwnRepetitionsOnly ==
    analysis.status = "ok" =>
        /\ Elems(RowIds(shared.concatI)) \subseteq Elems(analysis.repetitionList)
        /\ \A h \in HistIdx :
              /\ Elems(RowIds(shared.concatModes[h])) \subseteq Elems(analysis.repetitionList)
              /\ Elems(RowIds(shared.concatHistograms[h])) \subseteq Elems(analysis.repetitionList)
              /\ Elems(RowIds(shared.concatBinEdges[h])) \subseteq Elems(analysis.repetitionList)

(* ---------------------- claims on the counters -------------------------- *)
\* step and accepted as the core started with them: those stored in the
\* file for a loaded core, 0 for a fresh one
BaseStep ==
    IF loadInfo.outcome = "ok"
    THEN dataAt(file, optPath(loadInfo.repetition), "step")[1][1] ELSE 0

BaseAccepted ==
    IF loadInfo.outcome = "ok"
    THEN dataAt(file, optPath(loadInfo.repetition), "accepted")[1][1] ELSE 0

\* the number of accepted iterate calls of the trace
Accepts(trace) == Cardinality({i \in 1 .. Len(trace) : trace[i].acc # -1})

\* C23: a fresh McCore counts step and accepted from 0 whatever the supplied
\* opt carried; a loaded McCore counts on from the stored step and accepted:
\* its iterate calls continue the round-robin index from the stored step,
\* and the stored steps and accepts count against maxIter and maxAccept.
C23_CountersKept ==
    pc \in {"ready", "optimizing", "done"} =>
        /\ opt.step = BaseStep + Len(proposed)
        /\ opt.accepted = BaseAccepted + Accepts(proposed)
        /\ \A i \in 1 .. Len(proposed) : proposed[i].re = (BaseStep + i - 1) % NContrib
        /\ Len(proposed) > 0 => (opt.step <= opt.maxIter /\ opt.accepted <= opt.maxAccept)

C23_Witness ==
    /\ pc = "done"
    /\ loadInfo.outcome = "ok"
    /\ BaseStep = 1
    /\ BaseAccepted = 1
    /\ Len(proposed) = 1
    /\ proposed[1].re = 1
    /\ opt.accepted = opt.maxAccept
    /\ opt.step < opt.maxIter

\* C24: in every state that optimize reaches on a fresh core,
\* accepted <= maxAccept and step <= maxIter; once a limit is reached no
\* further iterate call is made and optimize returns with the core as it is.
C24_LimitsKept ==
    [][/\ pc' \in {"ready", "optimizing", "done", "failed"} =>
              (opt'.accepted <= opt'.maxAccept /\ opt'.step <= opt'.maxIter)
       /\ (pc = "optimizing" /\ (opt.accepted = opt.maxAccept \/ opt.step = opt.maxIter)) =>
              (pc' = "done" /\ opt' = opt /\ model' = model /\ iters' = iters)]_vars

\* C24 witness: optimize returned because the accept limit alone was reached
C24_Witness ==
    /\ pc = "done"
    /\ opt.maxAccept = MaxAccept
    /\ opt.accepted = opt.maxAccept
    /\ opt.step < opt.maxIter
    /\ opt.convCrit[1] * opt.gof[2] < opt.gof[1] * opt.convCrit[2]

(* ------------------ claims on the skipped and refused calls ------------- *)
\* C25: a call of _HDFstoreKV with the value None writes no dataset and
\* leaves every dataset of the file, the one at path/key included, as it
\* was; a call with filename, path or key None fails its assertion and
\* leaves the file unchanged.
C25_NoneSkipped ==
    [][/\ (/\ hdfCall'.value.kind = "None"
           /\ hdfCall'.filename # NoFile /\ hdfCall'.path # NoPath /\ hdfCall'.key # NoKey) =>
              (hdfCall'.raised = "none" /\ file'.data = file.data)
       /\ (hdfCall'.filename = NoFile \/ hdfCall'.path = NoPath \/ hdfCall'.key = NoKey) =>
              (hdfCall'.raised = "AssertionError" /\ file' = file)]_vars

\* C25 witness: the last call passed None for a key that holds a dataset
C25_Witness ==
    /\ hdfCall.value.kind = "None"
    /\ hdfCall.raised = "none"
    /\ hdfCall.key = "x0"
    /\ <<hdfCall.path, hdfCall.key>> \in DOMAIN file.data
    /\ file.data[<<hdfCall.path, hdfCall.key>>].data = <<<<7, 2>>, Whole(4)>>

(* --------------------- claims on the command line runner ---------------- *)
\* the positions of run() after the removal of the prior results file
RunPcs == {"unlinked", "readConfig", "dataStored", "optRead", "finished", "failed"}

\* what run() itself wrote so far, onto no file at all
WrittenByRun ==
    mcHatRun(IF cli.dataStored THEN mcDataStore(EmptyFile) ELSE EmptyFile, cli.repetitions)

\* C26: run() removes an existing result file before anything else, so at
\* every later position of run(), a failed one included, the result file
\* holds only what this run wrote; a McSAS3_cli_opt whose data file is
\* missing or whose configuration file is missing or not .yaml is refused at
\* construction, never runs, and leaves the result file as it was.
C26_PriorResultsGone ==
    /\ cli.pc \in RunPcs => file = WrittenByRun
    /\ cli.pc \in {"unlinked", "readConfig"} => file = EmptyFile
    /\ cli.pc = "rejected" => file = cli.prior
    /\ cli.pc \in RunPcs \cup {"constructed"} =>
          /\ cli.dataFile = "data.pdh"
          /\ cli.readConfigFile \in {"config.yaml", "broken.yaml"}
          /\ cli.runConfigFile \in {"config.yaml", "broken.yaml"}

\* C26 witness: run() failed on its read configuration after it removed a
\* result file that held a repetition
C26_Witness ==
    /\ cli.pc = "failed"
    /\ cli.readConfigFile = "broken.yaml"
    /\ HasRepetition(cli.prior, 1)
    /\ file = EmptyFile

====
